---- MODULE Spec2Model ----
(***************************************************************************)
(* Authentication / authorization core of AITemplateEditor:                *)
(*   - the Session Guard `auth`            (server/middleware/auth.js)     *)
(*   - the admin router                    (AuthContext.tsx, 421-671)      *)
(*   - the client gateway ApiService       (AuthContext.tsx, 124-420)      *)
(* The Role Guard `adminAuth` and the /auth routes are required by the     *)
(* sources but are not part of them; they are modelled from the written    *)
(* specification and marked as such.                                       *)
(*                                                                         *)
(* One request is one action: the middleware chain of a route and its      *)
(* handler run to completion, and the record `last` keeps what happened    *)
(* (the steps taken, the response, what the client made of it).            *)
(***************************************************************************)
EXTENDS Integers, Sequences, FiniteSets, TLC

\* ---------------------------------------------------------------- bounds
MaxUsers     == 2   \* accounts that can exist
MaxTemplates == 1   \* template documents that can exist
MaxTime      == 1   \* clock ticks
MaxTokens    == 2   \* tokens issued by login/register

\* ------------------------------------------------------ program constants
TokenTTL     == 1   \* validity window of an issued token, in ticks
DefaultPage  == 1
DefaultLimit == 20
DashboardLimit == 10

Roles      == {"user", "admin"}
UserIds    == 1..MaxUsers
GhostUser  == MaxUsers + 1      \* an id the account store never holds
TemplateIds == 1..MaxTemplates
EmailIds   == 1..MaxUsers
Categories == {"A", "B"}

\* --------------------------------------------------------------- tokens
\* A token string.  kind "jwt" is a three-part signed token; "garbage" is a
\* string that is no JWT; "empty" is the empty string.
Jwt(u, r, e, s) == [kind |-> "jwt", userId |-> u, role |-> r, exp |-> e, sig |-> s]
EmptyTok   == [kind |-> "empty",   userId |-> 0, role |-> "-", exp |-> 0, sig |-> "-"]
GarbageTok == [kind |-> "garbage", userId |-> 0, role |-> "-", exp |-> 0, sig |-> "-"]
NoTok      == [kind |-> "none",    userId |-> 0, role |-> "-", exp |-> 0, sig |-> "-"]

\* A token whose payload was edited after signing (role claim raised).
Tamper(t) == [t EXCEPT !.role = "admin", !.sig = "bad"]

\* The Authorization header of a request: absent, or a string that either
\* starts with "Bearer " followed by body, or is body alone.
NoHeader      == [present |-> FALSE, bearer |-> FALSE, body |-> NoTok]
Bearer(t)     == [present |-> TRUE,  bearer |-> TRUE,  body |-> t]
BareHeader(t) == [present |-> TRUE,  bearer |-> FALSE, body |-> t]

\* -------------------------------------------------------------- records
NoUser == [exists |-> FALSE, role |-> "user", isActive |-> FALSE, email |-> 0]
NoTemplate == [exists |-> FALSE, isActive |-> FALSE, isPublic |-> FALSE,
               isPremium |-> FALSE, category |-> "A", tags |-> {},
               name |-> <<>>, subject |-> <<>>, createdBy |-> 0]
NoPrincipal == [userId |-> 0, role |-> "-", userDoc |-> NoUser]
NoCode == "-"
NoPg == [current |-> 0, pages |-> 0, total |-> 0]
\* NaN and Infinity: not a finite number; JSON.stringify writes them as null.
NonFinite == -1
\* What a handler handed to the store's find: nothing.
NoFind == [called |-> FALSE, skip |-> 0, limit |-> 0]

VARIABLES
    users,        \* account store: UserIds -> account document
    templates,    \* template store: TemplateIds -> template document
    now,          \* server clock
    issued,       \* tokens signed with the server secret so far
    token,        \* ApiService.token (NoTok is null)
    localStorage, \* localStorage['authToken'] (NoTok is absent)
    last,         \* the last request: what was sent, what ran, what came back
    appUser,      \* App's user state
    ctxUser,      \* AuthProvider's user state
    caller,       \* who awaits the gateway call in flight ("-": nobody)
    effects       \* the mount effects of this page load that have yet to run

vars == <<users, templates, now, issued, token, localStorage, last,
          appUser, ctxUser, caller, effects>>
server == <<users, templates, now, issued>>
client == <<token, localStorage>>
ui == <<appUser, ctxUser, caller, effects>>
\* useEffect(() => { ... }, []) of App and of AuthProvider
MountEffects == {"checkAuthStatus", "initializeAuth"}

\* ------------------------------------------------------- values in the UI
\* useState(null), a member that is not there, an account record, and the
\* parsed body of a response that carries the account u (0: none).
Null == [kind |-> "null", id |-> 0]
Undefined == [kind |-> "undefined", id |-> 0]
Account(u) == [kind |-> "account", id |-> u]
Body(u) == [kind |-> "body", id |-> u]

\* ------------------------------------------------- Session Guard (auth.js)
\* auth.js:8  authHeader?.startsWith('Bearer ') ? authHeader.slice(7) : authHeader
ExtractToken(h) ==
    IF ~h.present THEN NoTok
    ELSE IF h.bearer THEN h.body      \* slice(7)
    ELSE h.body                        \* the header itself

\* A guard that tests the token against undefined only.
FalsyUndefinedOnly(t) == t.kind = "none"

\* auth.js:10  !token  (undefined and "" are falsy)
Falsy(t) == t.kind \in {"none", "empty"}

\* auth.js:20  jwt.verify: the signature is checked before the expiry.
JwtVerify(t) ==
    IF t.kind # "jwt" \/ t.sig # "good" THEN "JsonWebTokenError"
    ELSE IF now >= t.exp THEN "TokenExpiredError"
    ELSE "ok"

\* auth.js:37  User.findById(decoded.userId)
FindUser(id) == IF id \in UserIds /\ users[id].exists THEN users[id] ELSE NoUser

\* auth.js:22  jwtError.name === 'TokenExpiredError' ? TOKEN_EXPIRED : INVALID_TOKEN
JwtErrorCode(v) == IF v = "TokenExpiredError" THEN "TOKEN_EXPIRED" ELSE "INVALID_TOKEN"

\* A guard that never looks at the active flag.
DeactivatedIgnored(user) == FALSE

\* auth.js:46  !user.isActive
Deactivated(user) == ~user.isActive

\* A guard that takes the role from the account record, not the token.
AttachPrincipalStoredRole(tok, user) ==
    [userId |-> tok.userId, role |-> user.role, userDoc |-> user]

\* auth.js:55-59  req.user = { userId, role, userDoc }
AttachPrincipal(tok, user) ==
    [userId |-> tok.userId, role |-> tok.role, userDoc |-> user]

\* A res.status(st).json({code: cd}) followed by return: one response, no next().
Reject(st, cd, tr) ==
    [next |-> FALSE, status |-> st, code |-> cd, principal |-> NoPrincipal,
     trace |-> tr, sent |-> 1]

\* A guard that also turns away a token whose role claim is stale.
authStaleRoleRejected(h, storeUp) ==
    LET tok == ExtractToken(h) IN
    IF Falsy(tok) THEN Reject(401, NoCode, <<>>)
    ELSE LET v == JwtVerify(tok) IN
    IF v # "ok" THEN Reject(401, JwtErrorCode(v), <<"verify">>)
    ELSE IF ~storeUp THEN Reject(500, "AUTH_ERROR", <<"verify", "findById">>)
    ELSE LET user == FindUser(tok.userId) IN
    IF ~user.exists THEN Reject(401, "USER_NOT_FOUND", <<"verify", "findById">>)
    ELSE IF Deactivated(user) \/ user.role # tok.role
         THEN Reject(401, "ACCOUNT_DEACTIVATED", <<"verify", "findById">>)
    ELSE [next |-> TRUE, status |-> 0, code |-> NoCode,
          principal |-> AttachPrincipal(tok, user),
          trace |-> <<"verify", "findById", "next">>, sent |-> 0]

\* The whole middleware.  storeUp = FALSE makes the store read throw, which
\* the outer catch (auth.js:62-69) turns into a 500.
auth(h, storeUp) ==
    LET tok == ExtractToken(h) IN
    IF Falsy(tok) THEN Reject(401, NoCode, <<>>)
    ELSE LET v == JwtVerify(tok) IN
    IF v # "ok" THEN Reject(401, JwtErrorCode(v), <<"verify">>)
    ELSE IF ~storeUp THEN Reject(500, "AUTH_ERROR", <<"verify", "findById">>)
    ELSE LET user == FindUser(tok.userId) IN
    IF ~user.exists THEN Reject(401, "USER_NOT_FOUND", <<"verify", "findById">>)
    ELSE IF Deactivated(user)
         THEN Reject(401, "ACCOUNT_DEACTIVATED", <<"verify", "findById">>)
    ELSE [next |-> TRUE, status |-> 0, code |-> NoCode,
          principal |-> AttachPrincipal(tok, user),
          trace |-> <<"verify", "findById", "next">>, sent |-> 0]

\* ------------------------------------------------- Role Guard (adminAuth)
\* Requires an authenticated principal whose role is admin; else Forbidden.
adminAuth(p) == p.role = "admin"

\* ------------------------------------------------------------- routing
AdminRoutes == {"dashboard", "listUsers", "listTemplates", "createTemplate",
                "updateTemplate", "deleteTemplate", "updateRole", "deactivate"}
GuardedRoutes == AdminRoutes \cup {"me", "other"}
OpenRoutes == {"login", "register"}

\* A router whose admin routes are declared with the Session Guard only.
MiddlewareAuthOnly(route) == IF route \in GuardedRoutes THEN <<"auth">> ELSE <<>>

\* The middleware each route is declared with, in order.
Middleware(route) ==
    IF route \in AdminRoutes THEN <<"auth", "adminAuth">>
    ELSE IF route \in GuardedRoutes THEN <<"auth">>
    ELSE <<>>

\* Express runs the declared middleware left to right; the handler runs only
\* if every one of them called next().
RunChain(route, h, storeUp) ==
    LET mw == Middleware(route)
        open == [next |-> TRUE, status |-> 0, code |-> NoCode,
                 principal |-> NoPrincipal, trace |-> <<>>, sent |-> 0]
        a == IF Len(mw) >= 1 /\ mw[1] = "auth" THEN auth(h, storeUp) ELSE open
    IN  IF ~a.next \/ Len(mw) < 2 THEN a
        ELSE IF adminAuth(a.principal)
             THEN [a EXCEPT !.trace = @ \o <<"adminAuth", "next">>]
             ELSE [a EXCEPT !.next = FALSE, !.status = 403, !.code = "FORBIDDEN",
                            !.trace = @ \o <<"adminAuth">>, !.sent = 1]

\* ------------------------------------------------------- query parameters
\* req.query: every value is a string.  page and limit may be absent
\* (has = FALSE), as may search; category and isPublic are strings or "absent".
Param(v) == [has |-> TRUE, v |-> v]
NoParam == [has |-> FALSE, v |-> <<>>]
Q(pg, lm, sr, ct, pb) ==
    [page |-> pg, limit |-> lm, search |-> sr, category |-> ct, isPublic |-> pb]
PlainQuery == Q(NoParam, NoParam, <<>>, "absent", "absent")

\* Decimal strings: digits, possibly with leading zeros or a zero fraction.
DigitChars == {"0", "1", "2", "3", "4", "5", "6", "7", "8", "9"}
DigitValue(ch) ==
    CASE ch = "0" -> 0 [] ch = "1" -> 1 [] ch = "2" -> 2 [] ch = "3" -> 3
      [] ch = "4" -> 4 [] ch = "5" -> 5 [] ch = "6" -> 6 [] ch = "7" -> 7
      [] ch = "8" -> 8 [] ch = "9" -> 9

RECURSIVE DecValue(_)
DecValue(str) ==
    IF str = <<>> THEN 0
    ELSE 10 * DecValue(SubSeq(str, 1, Len(str) - 1)) + DigitValue(str[Len(str)])

\* The longest prefix of str made of digits.
RECURSIVE DigitPrefix(_)
DigitPrefix(str) ==
    IF str = <<>> \/ str[1] \notin DigitChars THEN <<>>
    ELSE <<str[1]>> \o DigitPrefix(Tail(str))

\* parseInt(str): the leading digits, whatever follows them.
ParseInt(str) == DecValue(DigitPrefix(str))

\* str * 1, str - 1, total / str: the whole string read as a number.  Defined
\* here for the strings whose value is an integer.
ToNumber(str) ==
    LET int == DigitPrefix(str)
        rest == SubSeq(str, Len(int) + 1, Len(str))
    IN  IF rest = <<>> \/ (rest[1] = "." /\ \A i \in 2..Len(rest) : rest[i] = "0")
        THEN DecValue(int)
        ELSE NonFinite

\* const { page = 1, limit = 20 } = req.query, as the arithmetic reads them
QPage(q)  == IF q.page.has  THEN ToNumber(q.page.v)  ELSE DefaultPage
QLimit(q) == IF q.limit.has THEN ToNumber(q.limit.v) ELSE DefaultLimit
\* parseInt(page)
QCurrent(q) == IF q.page.has THEN ParseInt(q.page.v) ELSE DefaultPage

\* ------------------------------------------------------------ responses
Idle == [phase |-> "idle", origin |-> "-", method |-> "-", route |-> "-",
         hdr |-> NoHeader, id |-> 0, trace |-> <<>>, principal |-> NoPrincipal,
         ran |-> FALSE, status |-> 0, code |-> NoCode, sent |-> 0,
         items |-> <<>>, pg |-> NoPg, tokOut |-> NoTok, userOut |-> 0,
         ctype |-> "-", cerr |-> "-", query |-> PlainQuery, find |-> NoFind]

\* What a request left behind: c is the outcome of the middleware chain, st
\* the status the handler answered with (used only if the handler ran).
Served(origin, method, route, h, id, c, st, items, pg, tokOut, userOut) ==
    [phase |-> "served", origin |-> origin, method |-> method, route |-> route,
     hdr |-> h, id |-> id,
     trace |-> IF c.next THEN c.trace \o <<"handler">> ELSE c.trace,
     principal |-> c.principal, ran |-> c.next,
     status |-> IF c.next THEN st ELSE c.status,
     code |-> IF c.next THEN NoCode ELSE c.code,
     sent |-> IF c.next THEN 1 ELSE c.sent,
     items |-> IF c.next THEN items ELSE <<>>,
     pg |-> IF c.next THEN pg ELSE NoPg,
     tokOut |-> IF c.next THEN tokOut ELSE NoTok,
     userOut |-> IF c.next THEN userOut ELSE 0,
     ctype |-> "json", cerr |-> "-", query |-> PlainQuery, find |-> NoFind]

\* ------------------------------------------------------------- helpers
Max(S) == CHOOSE x \in S : \A y \in S : y <= x

\* .sort({ createdAt: -1 }): ids are handed out in creation order.
RECURSIVE DescSeq(_)
DescSeq(S) == IF S = {} THEN <<>> ELSE <<Max(S)>> \o DescSeq(S \ {Max(S)})

\* Math.ceil(a / b) for b > 0
CeilDiv(a, b) == (a + b - 1) \div b

Min2(a, b) == IF a <= b THEN a ELSE b

\* The store's find with .limit(n).skip(k): a limit of 0 is no limit.
Find(seq, k, n) ==
    SubSeq(seq, k + 1, IF n = 0 THEN Len(seq) ELSE Min2(Len(seq), k + n))

\* .limit(limit * 1).skip((page - 1) * limit)
FindArgs(page, limit) == [called |-> TRUE, skip |-> (page - 1) * limit, limit |-> limit]
PageOf(seq, page, limit) == Find(seq, FindArgs(page, limit).skip, FindArgs(page, limit).limit)

\* A handler that rounds the number of pages down.
PaginationFloor(total, current, limit) ==
    [current |-> current,
     pages |-> IF limit = 0 THEN NonFinite ELSE total \div limit,
     total |-> total]

\* { current: parseInt(page), pages: Math.ceil(total / limit), total }
Pagination(total, current, limit) ==
    [current |-> current,
     pages |-> IF limit = 0 THEN NonFinite ELSE CeilDiv(total, limit),
     total |-> total]

\* $regex with $options 'i' over a literal pattern: case-insensitive substring.
Lower(ch) == CASE ch = "W" -> "w" [] ch = "R" -> "r" [] ch = "P" -> "p" [] OTHER -> ch
Contains(text, pat) ==
    \E i \in 0..(Len(text) - Len(pat)) :
        \A j \in 1..Len(pat) : Lower(text[i + j]) = Lower(pat[j])

ExistingUsers == {u \in UserIds : users[u].exists}
ExistingTemplates == {t \in TemplateIds : templates[t].exists}

NameText(u) == IF users[u].email = 1 THEN <<"R", "o">> ELSE <<"W", "e">>
EmailText(u) == IF users[u].email = 1 THEN <<"r", "@">> ELSE <<"w", "@">>

\* AuthContext.tsx:476-482
UserMatches(q, u) ==
    /\ users[u].exists /\ users[u].isActive
    /\ q.search # <<>> => (Contains(NameText(u), q.search) \/ Contains(EmailText(u), q.search))

\* A listing query that leaves out the isActive condition.
TemplateMatchesAny(q, t) ==
    /\ templates[t].exists
    /\ q.search # <<>> =>
          (Contains(templates[t].name, q.search) \/ Contains(templates[t].subject, q.search))
    /\ (q.category # "absent" /\ q.category # "all") => templates[t].category = q.category
    /\ q.isPublic # "absent" => templates[t].isPublic = (q.isPublic = "true")

\* AuthContext.tsx:511-526
TemplateMatches(q, t) ==
    /\ templates[t].exists /\ templates[t].isActive
    /\ q.search # <<>> =>
          (Contains(templates[t].name, q.search) \/ Contains(templates[t].subject, q.search))
    /\ (q.category # "absent" /\ q.category # "all") => templates[t].category = q.category
    /\ q.isPublic # "absent" => templates[t].isPublic = (q.isPublic = "true")

\* --------------------------------------------------- admin router handlers
\* Each Srv action is one request to one route: the declared middleware, then
\* (if it passed) the handler.  hUp = FALSE makes the handler's store call
\* throw, which its catch block answers with a 500.

\* GET /dashboard
SrvDashboard(origin, method, h, storeUp, hUp) ==
    LET c == RunChain("dashboard", h, storeUp)
        act == {t \in ExistingTemplates : templates[t].isActive}
    IN  /\ last.phase = "idle"
        /\ last' = Served(origin, method, "dashboard", h, 0, c,
                          IF hUp THEN 200 ELSE 500,
                          IF hUp THEN PageOf(DescSeq(act), 1, DashboardLimit) ELSE <<>>,
                          IF hUp THEN [NoPg EXCEPT !.total = Cardinality(act)] ELSE NoPg,
                          NoTok, 0)
        /\ UNCHANGED server

\* GET /users
SrvListUsers(origin, method, h, q, storeUp, hUp) ==
    LET c == RunChain("listUsers", h, storeUp)
        hit == DescSeq({u \in UserIds : UserMatches(q, u)})
    IN  /\ last.phase = "idle"
        /\ last' = [Served(origin, method, "listUsers", h, 0, c,
                           IF hUp THEN 200 ELSE 500,
                           IF hUp THEN PageOf(hit, QPage(q), QLimit(q)) ELSE <<>>,
                           IF hUp THEN Pagination(Len(hit), QCurrent(q), QLimit(q))
                                  ELSE NoPg,
                           NoTok, 0)
                      EXCEPT !.query = q,
                             !.find = IF c.next THEN FindArgs(QPage(q), QLimit(q))
                                                ELSE NoFind]
        /\ UNCHANGED server

\* GET /templates
SrvListTemplates(origin, method, h, q, storeUp, hUp) ==
    LET c == RunChain("listTemplates", h, storeUp)
        hit == DescSeq({t \in TemplateIds : TemplateMatches(q, t)})
    IN  /\ last.phase = "idle"
        /\ last' = [Served(origin, method, "listTemplates", h, 0, c,
                           IF hUp THEN 200 ELSE 500,
                           IF hUp THEN PageOf(hit, QPage(q), QLimit(q)) ELSE <<>>,
                           IF hUp THEN Pagination(Len(hit), QCurrent(q), QLimit(q))
                                  ELSE NoPg,
                           NoTok, 0)
                      EXCEPT !.query = q,
                             !.find = IF c.next THEN FindArgs(QPage(q), QLimit(q))
                                                ELSE NoFind]
        /\ UNCHANGED server

\* POST /templates: {...req.body, createdBy, isPublic: true, isPremium: body.isPremium || false}
NewTemplate(body, p) ==
    [exists |-> TRUE, isActive |-> body.isActive, isPublic |-> TRUE,
     isPremium |-> body.isPremium, category |-> body.category, tags |-> body.tags,
     name |-> body.name, subject |-> body.subject, createdBy |-> p.userId]

SrvCreateTemplate(origin, method, h, body, storeUp, hUp) ==
    LET c == RunChain("createTemplate", h, storeUp)
        id == Cardinality(ExistingTemplates) + 1
        ok == c.next /\ hUp
    IN  /\ last.phase = "idle"
        /\ id \in TemplateIds
        /\ templates' = IF ok THEN [templates EXCEPT ![id] = NewTemplate(body, c.principal)]
                        ELSE templates
        /\ last' = Served(origin, method, "createTemplate", h, IF ok THEN id ELSE 0, c,
                          IF hUp THEN 201 ELSE 500, <<>>, NoPg, NoTok, 0)
        /\ UNCHANGED <<users, now, issued>>

\* PUT /templates/:id  findByIdAndUpdate(id, { isPublic, isPremium, category, tags })
\* Fields the body does not carry are undefined and are not written.
ApplyUpdate(t, b) ==
    [t EXCEPT !.isPublic  = IF b.hasPublic   THEN b.isPublic  ELSE @,
              !.isPremium = IF b.hasPremium  THEN b.isPremium ELSE @,
              !.category  = IF b.hasCategory THEN b.category  ELSE @,
              !.tags      = IF b.hasTags     THEN b.tags      ELSE @]

\* Template.findByIdAndUpdate(req.params.id, ...): resolves the document by id.
UpdatableTemplate(id) == id \in TemplateIds /\ templates[id].exists

SrvUpdateTemplate(origin, method, h, id, b, storeUp, hUp) ==
    LET c == RunChain("updateTemplate", h, storeUp)
        found == UpdatableTemplate(id)
        ok == c.next /\ hUp /\ found
    IN  /\ last.phase = "idle"
        /\ templates' = IF ok THEN [templates EXCEPT ![id] = ApplyUpdate(@, b)]
                        ELSE templates
        /\ last' = Served(origin, method, "updateTemplate", h, id, c,
                          IF ~hUp THEN 500 ELSE IF found THEN 200 ELSE 404,
                          <<>>, NoPg, NoTok, 0)
        /\ UNCHANGED <<users, now, issued>>

\* DELETE /templates/:id  findByIdAndUpdate(id, { isActive: false })
SrvDeleteTemplate(origin, method, h, id, storeUp, hUp) ==
    LET c == RunChain("deleteTemplate", h, storeUp)
        found == UpdatableTemplate(id)
        ok == c.next /\ hUp /\ found
    IN  /\ last.phase = "idle"
        /\ templates' = IF ok THEN [templates EXCEPT ![id].isActive = FALSE]
                        ELSE templates
        /\ last' = Served(origin, method, "deleteTemplate", h, id, c,
                          IF ~hUp THEN 500 ELSE IF found THEN 200 ELSE 404,
                          <<>>, NoPg, NoTok, 0)
        /\ UNCHANGED <<users, now, issued>>

\* PUT /users/:id/role
SrvUpdateRole(origin, method, h, id, role, storeUp, hUp) ==
    LET c == RunChain("updateRole", h, storeUp)
        valid == role \in {"user", "admin"}
        found == id \in ExistingUsers
        ok == c.next /\ valid /\ hUp /\ found
    IN  /\ last.phase = "idle"
        /\ users' = IF ok THEN [users EXCEPT ![id].role = role] ELSE users
        /\ last' = Served(origin, method, "updateRole", h, id, c,
                          IF ~valid THEN 400 ELSE IF ~hUp THEN 500
                          ELSE IF found THEN 200 ELSE 404,
                          <<>>, NoPg, NoTok, IF ok THEN id ELSE 0)
        /\ UNCHANGED <<templates, now, issued>>

\* PUT /users/:id/deactivate
SrvDeactivate(origin, method, h, id, storeUp, hUp) ==
    LET c == RunChain("deactivate", h, storeUp)
        found == id \in ExistingUsers
        ok == c.next /\ hUp /\ found
    IN  /\ last.phase = "idle"
        /\ users' = IF ok THEN [users EXCEPT ![id].isActive = FALSE] ELSE users
        /\ last' = Served(origin, method, "deactivate", h, id, c,
                          IF ~hUp THEN 500 ELSE IF found THEN 200 ELSE 404,
                          <<>>, NoPg, NoTok, 0)
        /\ UNCHANGED <<templates, now, issued>>

\* ------------------------------------------------------------ /auth routes
\* Token Codec issue(accountId, role): expiry = issue time + validity window.
Issue(u) == Jwt(u, users[u].role, now + TokenTTL, "good")

\* The out-of-band token: signed by this server for an account that the
\* store no longer holds (the case auth.js:38 answers with USER_NOT_FOUND).
GhostToken == Jwt(GhostUser, "admin", TokenTTL, "good")

\* The bound on issuing: MaxTokens tokens besides the out-of-band one.
CanIssue(t) == t \in issued \/ Cardinality(issued \ {GhostToken}) < MaxTokens

\* POST /auth/login {email, password} -> {token, user}
SrvLogin(origin, method, h, e, pwOk, hUp) ==
    LET c == RunChain("login", h, TRUE)
        who == {u \in ExistingUsers : users[u].email = e}
        ok == hUp /\ pwOk /\ who # {}
        u == IF who # {} THEN CHOOSE x \in who : TRUE ELSE 0
    IN  /\ last.phase = "idle"
        /\ ok => CanIssue(Issue(u))
        /\ issued' = IF ok THEN issued \cup {Issue(u)} ELSE issued
        /\ last' = Served(origin, method, "login", h, 0, c,
                          IF ~hUp THEN 500 ELSE IF ok THEN 200 ELSE 401,
                          <<>>, NoPg, IF ok THEN Issue(u) ELSE NoTok, IF ok THEN u ELSE 0)
        /\ UNCHANGED <<users, templates, now>>

\* POST /auth/register {name, email, password} -> {token, user}
SrvRegister(origin, method, h, e, hUp) ==
    LET c == RunChain("register", h, TRUE)
        taken == \E u \in ExistingUsers : users[u].email = e
        id == Cardinality(ExistingUsers) + 1
        ok == hUp /\ ~taken
        doc == [exists |-> TRUE, role |-> "user", isActive |-> TRUE, email |-> e]
        tok == Jwt(id, "user", now + TokenTTL, "good")
    IN  /\ last.phase = "idle"
        /\ ok => (id \in UserIds /\ CanIssue(tok))
        /\ users' = IF ok THEN [users EXCEPT ![id] = doc] ELSE users
        /\ issued' = IF ok THEN issued \cup {tok} ELSE issued
        /\ last' = Served(origin, method, "register", h, 0, c,
                          IF ~hUp THEN 500 ELSE IF ok THEN 201 ELSE 400,
                          <<>>, NoPg, IF ok THEN tok ELSE NoTok, IF ok THEN id ELSE 0)
        /\ UNCHANGED <<templates, now>>

\* GET /auth/me (bearer token) -> {user}
SrvMe(origin, method, h, storeUp, hUp) ==
    LET c == RunChain("me", h, storeUp)
    IN  /\ last.phase = "idle"
        /\ last' = Served(origin, method, "me", h, 0, c, IF hUp THEN 200 ELSE 500,
                          <<>>, NoPg, NoTok, IF hUp THEN c.principal.userId ELSE 0)
        /\ UNCHANGED server

\* Any other guarded endpoint (/templates..., /ai...): the Session Guard, then
\* a handler that answers with some status st.
SrvOther(origin, method, h, storeUp, st) ==
    LET c == RunChain("other", h, storeUp)
    IN  /\ last.phase = "idle"
        /\ last' = Served(origin, method, "other", h, 0, c, st, <<>>, NoPg, NoTok, 0)
        /\ UNCHANGED server

\* ------------------------------------------------ client gateway ApiService
AuthMethods     == {"login", "register", "getCurrentUser"}
TemplateMethods == {"getTemplates", "getMyTemplates", "getTemplate", "createTemplate",
                    "updateTemplate", "deleteTemplate", "cloneTemplate", "toggleFavorite",
                    "rateTemplate", "duplicateTemplate", "getTemplateStats"}
AIMethods       == {"generateTemplate", "getAISuggestions", "enhanceTemplate"}
AdminMethods    == {"getAdminDashboard", "getAdminUsers", "getAdminTemplates",
                    "createAdminTemplate", "updateAdminTemplate", "deleteAdminTemplate",
                    "updateUserRole", "deactivateUser"}
GatewayMethods  == AuthMethods \cup TemplateMethods \cup AIMethods \cup AdminMethods

\* The endpoint each method requests.
RouteOf(m) ==
    CASE m = "login" -> "login"
      [] m = "register" -> "register"
      [] m = "getCurrentUser" -> "me"
      [] m = "getAdminDashboard" -> "dashboard"
      [] m = "getAdminUsers" -> "listUsers"
      [] m = "getAdminTemplates" -> "listTemplates"
      [] m = "createAdminTemplate" -> "createTemplate"
      [] m = "updateAdminTemplate" -> "updateTemplate"
      [] m = "deleteAdminTemplate" -> "deleteTemplate"
      [] m = "updateUserRole" -> "updateRole"
      [] m = "deactivateUser" -> "deactivate"
      [] OTHER -> "other"

\* The options a method hands to request(): method and body at most, never
\* a headers member.
NoOptions == [hasHeaders |-> FALSE, authorization |-> NoHeader]
MethodOptions(m) == NoOptions

\* A request() that sends the token without the Bearer prefix.
BuildHeadersNoPrefix(tok, opt) ==
    IF opt.hasHeaders THEN opt.authorization
    ELSE IF ~Falsy(tok) THEN BareHeader(tok)
    ELSE NoHeader

\* AuthContext.tsx:136-143
\*   headers: { 'Content-Type', ...(this.token && { Authorization }), ...options.headers },
\*   ...options
\* A headers member of options replaces the merged headers as a whole.
BuildHeaders(tok, opt) ==
    IF opt.hasHeaders THEN opt.authorization
    ELSE IF ~Falsy(tok) THEN Bearer(tok)
    ELSE NoHeader

\* AuthContext.tsx:145-181: the error request() throws for a response, "none"
\* if it returns the data.
RequestError(r) ==
    IF r.ctype = "netfail" THEN "net"                   \* fetch rejected
    ELSE IF r.ctype = "html" THEN "format"              \* :150
    ELSE IF r.ctype = "badjson" THEN "parse"            \* :154 response.json() throws
    ELSE IF r.status \notin 200..299 THEN
         IF r.status = 401 THEN
             IF r.code = "TOKEN_EXPIRED" THEN "expired" ELSE "auth"
         ELSE "http"
    ELSE "none"

\* AuthContext.tsx:158-159: whether request() reaches this.logout().
CallsLogout(r) == r.ctype = "json" /\ r.status \notin 200..299 /\ r.status = 401

\* AuthContext.tsx:192-196, 209-213: login/register keep a truthy token.
KeepsToken(r) ==
    /\ r.method \in {"login", "register"}
    /\ RequestError(r) = "none"
    /\ ~Falsy(r.tokOut)

\* A response that did not come from the application server: a proxy's
\* error page, a truncated body, or no response at all.
Intercepted(m, h, ct, st) ==
    [Idle EXCEPT !.phase = "served", !.origin = "client", !.method = m,
                 !.route = RouteOf(m), !.hdr = h, !.status = st, !.ctype = ct,
                 !.sent = IF ct = "netfail" THEN 0 ELSE 1]

ApiIntercepted(m, ct, st) ==
    /\ last.phase = "idle"
    /\ last' = Intercepted(m, BuildHeaders(token, MethodOptions(m)), ct, st)
    /\ UNCHANGED <<server, client, ui>>

\* The rest of request() and of the calling method, once the response is in.
ApiReceive ==
    /\ last.phase = "served" /\ last.origin = "client"
    /\ token' = IF CallsLogout(last) THEN NoTok
                ELSE IF KeepsToken(last) THEN last.tokOut ELSE token
    /\ localStorage' = IF CallsLogout(last) THEN NoTok
                       ELSE IF KeepsToken(last) THEN last.tokOut ELSE localStorage
    /\ last' = [last EXCEPT !.phase = "handled", !.cerr = RequestError(last)]
    /\ UNCHANGED <<server, ui>>

\* The idle state right after a logout() call from outside request().
LoggedOut == [Idle EXCEPT !.origin = "client", !.method = "logout"]

\* AuthContext.tsx:237-240
ApiLogout ==
    /\ last.phase = "idle"
    /\ token' = NoTok
    /\ localStorage' = NoTok
    /\ last' = LoggedOut
    /\ UNCHANGED <<server, ui>>

\* AuthContext.tsx:129-131: a page load constructs the service anew.
ApiConstruct ==
    /\ last.phase = "idle"
    /\ token' = localStorage
    /\ UNCHANGED <<server, localStorage, last, ui>>

\* The call has returned (or thrown) to its caller; a third party's request
\* is simply over.
Finish ==
    /\ \/ last.phase = "handled" /\ caller = "-"
       \/ last.phase = "served" /\ last.origin = "raw"
    /\ last' = Idle
    /\ UNCHANGED <<server, client, ui>>

Tick ==
    /\ last.phase = "idle"
    /\ now < MaxTime
    /\ now' = now + 1
    /\ UNCHANGED <<users, templates, issued, client, last, ui>>

\* ---------------------------------------------------------------- inputs
\* What a request may present as a token: nothing usable, a token this server
\* signed, or such a token with its payload edited.
Presentable == {EmptyTok, GarbageTok} \cup issued \cup {Tamper(t) : t \in issued}
Headers == {NoHeader} \cup {Bearer(t) : t \in Presentable}
                      \cup {BareHeader(t) : t \in issued \cup {EmptyTok}}
\* The headers of the gateway's users: a token the server issued to them.
IssuedHeaders == {Bearer(t) : t \in issued \ {GhostToken}}

\* Answers that do not come from the application server.
Answer(ct, st) == [ctype |-> ct, status |-> st]
Intercepts == {Answer("html", 401), Answer("html", 502), Answer("badjson", 401),
               Answer("netfail", 0)}

\* Store faults: none, the guard's read throws, the handler's call throws.
NoFault    == [storeUp |-> TRUE,  hUp |-> TRUE]
GuardFault == [storeUp |-> FALSE, hUp |-> TRUE]
HandlerFault == [storeUp |-> TRUE, hUp |-> FALSE]

BodyWelcome == [name |-> <<"W", "e">>, subject |-> <<"h", "i">>, category |-> "A",
                isPremium |-> FALSE, isActive |-> TRUE, tags |-> {}]
BodyPromo   == [name |-> <<"P", "r">>, subject |-> <<"w", "o">>, category |-> "B",
                isPremium |-> TRUE, isActive |-> TRUE, tags |-> {"x"}]

NoUpdate == [hasPublic |-> FALSE, isPublic |-> FALSE, hasPremium |-> FALSE,
             isPremium |-> FALSE, hasCategory |-> FALSE, category |-> "A",
             hasTags |-> FALSE, tags |-> {}]
UpdHide    == [NoUpdate EXCEPT !.hasPublic = TRUE, !.isPublic = FALSE]
UpdRetag   == [NoUpdate EXCEPT !.hasPremium = TRUE, !.isPremium = TRUE,
                               !.hasCategory = TRUE, !.category = "B",
                               !.hasTags = TRUE, !.tags = {"x"}]

\* The ids a request may name: every document there is, and one there is not.
UserIdInputs == 1..(Cardinality(ExistingUsers) + 1)
TemplateIdInputs == 1..(Cardinality(ExistingTemplates) + 1)

\* One request to `route` carrying header h, its other inputs drawn from the
\* sets of profile P.
Serve(origin, m, route, h, P) ==
    \/ /\ route = "dashboard"
       /\ \E f \in P.faults : SrvDashboard(origin, m, h, f.storeUp, f.hUp)
    \/ /\ route = "listUsers"
       /\ \E f \in P.faults, q \in P.queries :
             SrvListUsers(origin, m, h, q, f.storeUp, f.hUp)
    \/ /\ route = "listTemplates"
       /\ \E f \in P.faults, q \in P.queries :
             SrvListTemplates(origin, m, h, q, f.storeUp, f.hUp)
    \/ /\ route = "createTemplate"
       /\ \E f \in P.faults, b \in P.creates :
             SrvCreateTemplate(origin, m, h, b, f.storeUp, f.hUp)
    \/ /\ route = "updateTemplate"
       /\ \E f \in P.faults, id \in TemplateIdInputs, b \in P.updates :
             SrvUpdateTemplate(origin, m, h, id, b, f.storeUp, f.hUp)
    \/ /\ route = "deleteTemplate"
       /\ \E f \in P.faults, id \in TemplateIdInputs :
             SrvDeleteTemplate(origin, m, h, id, f.storeUp, f.hUp)
    \/ /\ route = "updateRole"
       /\ \E f \in P.faults, id \in UserIdInputs, r \in P.roles :
             SrvUpdateRole(origin, m, h, id, r, f.storeUp, f.hUp)
    \/ /\ route = "deactivate"
       /\ \E f \in P.faults, id \in UserIdInputs :
             SrvDeactivate(origin, m, h, id, f.storeUp, f.hUp)
    \/ /\ route = "login"
       /\ \E e \in P.emails, pwOk \in P.passwords :
             SrvLogin(origin, m, h, e, pwOk, TRUE)
    \/ /\ route = "register"
       /\ \E e \in P.emails : SrvRegister(origin, m, h, e, TRUE)
    \/ /\ route = "me"
       /\ \E f \in P.faults : SrvMe(origin, m, h, f.storeUp, f.hUp)
    \/ /\ route = "other"
       /\ \E f \in P.faults \ {HandlerFault}, st \in P.statuses :
             SrvOther(origin, m, h, f.storeUp, st)

\* A request from anyone: any header on the routes of P.probe, an issued token
\* on the routes of P.ops, no header on the open routes of P.open.
RawRequest(P) ==
    /\ \/ \E route \in P.probe, h \in P.headers : Serve("raw", "-", route, h, P)
       \/ \E route \in P.ops, h \in IssuedHeaders :
             Serve("raw", "-", route, h, [P EXCEPT !.faults = {NoFault}])
       \/ \E route \in P.open : Serve("raw", "-", route, NoHeader, P)
    /\ UNCHANGED <<client, ui>>

\* A call of a gateway method: request() builds the headers from the stored
\* token and the server answers.
ApiCall(P) ==
    /\ \E m \in P.methods :
          Serve("client", m, RouteOf(m), BuildHeaders(token, MethodOptions(m)), P)
    /\ UNCHANGED <<client, ui>>

\* A call of a gateway method that the application server does not answer.
ApiFails(P) ==
    \E m \in P.methods, i \in P.intercepts : ApiIntercepted(m, i.ctype, i.status)

\* ------------------------------------------- the App and the AuthProvider
\* value.user: a response body has the member, an account record has not.
UserOf(v) == IF v.kind = "body" /\ v.id # 0 THEN Account(v.id) ELSE Undefined
Truthy(v) == v.kind \in {"account", "body"}
OrElse(a, b) == IF Truthy(a) THEN a ELSE b

\* AuthContext.tsx:218-221  response.data?.user || response.user || response
\* (the body of GET /auth/me is {user}: it has no data member)
GetCurrentUserResult(response) == OrElse(OrElse(Undefined, UserOf(response)), response)

\* AuthContext.tsx:199, 216  response.data || response
LoginResult(response) == OrElse(Undefined, response)

\* AuthContext.tsx:224-234  the token's exp against the browser's clock
IsAuthenticated == ~Falsy(token) /\ token.kind = "jwt" /\ now < token.exp

\* `who` calls gateway method m and awaits it: the application server
\* answers, or something in between does.
GatewayCall(m, who, P) ==
    /\ caller = "-"
    /\ \/ Serve("client", m, RouteOf(m), BuildHeaders(token, MethodOptions(m)), P)
       \/ /\ last.phase = "idle"
          /\ \E i \in P.intercepts :
                last' = Intercepted(m, BuildHeaders(token, MethodOptions(m)),
                                    i.ctype, i.status)
          /\ UNCHANGED server
    /\ caller' = who
    /\ effects' = effects \ {who}
    /\ UNCHANGED <<client, appUser, ctxUser>>

\* The idle state right after `who` has dealt with the outcome of its call.
Settled(who) ==
    [Idle EXCEPT !.origin = "ui", !.method = who, !.status = last.status,
                 !.cerr = last.cerr, !.userOut = last.userOut]
Returned(who) == last.phase = "handled" /\ caller = who

\* A page load: the module constructs the ApiService, the components mount.
\* The two mount effects then run, one after the other, before the user does
\* anything.
PageLoad ==
    /\ last.phase = "idle" /\ caller = "-"
    /\ token' = localStorage
    /\ appUser' = Null /\ ctxUser' = Null
    /\ effects' = MountEffects
    /\ last' = Idle
    /\ UNCHANGED <<server, localStorage, caller>>

\* App.tsx:25-31  checkAuthStatus up to the await
AppCheckAuthStatus(P) ==
    /\ "checkAuthStatus" \in effects
    /\ \/ /\ ~Falsy(localStorage)
          /\ GatewayCall("getCurrentUser", "checkAuthStatus", P)
       \/ /\ Falsy(localStorage)
          /\ last.phase = "idle" /\ caller = "-"
          /\ last' = [Idle EXCEPT !.origin = "ui", !.method = "checkAuthStatus",
                                  !.cerr = "skipped"]
          /\ effects' = effects \ {"checkAuthStatus"}
          /\ UNCHANGED <<server, client, appUser, ctxUser, caller>>

\* App.tsx:30-37  setUser(response.user), or the catch block
AppCheckAuthSettle ==
    /\ Returned("checkAuthStatus")
    /\ appUser' = IF last.cerr = "none"
                  THEN UserOf(GetCurrentUserResult(Body(last.userOut)))
                  ELSE appUser
    /\ localStorage' = IF last.cerr = "none" THEN localStorage ELSE NoTok
    /\ last' = Settled("checkAuthStatus")
    /\ caller' = "-"
    /\ UNCHANGED <<server, token, ctxUser, effects>>

\* App.tsx:45-49
AppHandleLogout ==
    /\ last.phase = "idle" /\ caller = "-" /\ effects = {}
    /\ token' = NoTok /\ localStorage' = NoTok
    /\ appUser' = Null
    /\ last' = LoggedOut
    /\ UNCHANGED <<server, ctxUser, caller, effects>>

\* AuthContext.tsx:50-54  initializeAuth up to the await
InitializeAuth(P) ==
    /\ "initializeAuth" \in effects
    /\ \/ /\ IsAuthenticated
          /\ GatewayCall("getCurrentUser", "initializeAuth", P)
       \/ /\ ~IsAuthenticated
          /\ last.phase = "idle" /\ caller = "-"
          /\ last' = [Idle EXCEPT !.origin = "ui", !.method = "initializeAuth",
                                  !.cerr = "skipped"]
          /\ effects' = effects \ {"initializeAuth"}
          /\ UNCHANGED <<server, client, appUser, ctxUser, caller>>

\* AuthContext.tsx:53-63
InitializeAuthSettle ==
    /\ Returned("initializeAuth")
    /\ ctxUser' = IF last.cerr = "none" THEN GetCurrentUserResult(Body(last.userOut))
                  ELSE ctxUser
    /\ localStorage' = IF last.cerr = "none" THEN localStorage ELSE NoTok
    /\ last' = Settled("initializeAuth")
    /\ caller' = "-"
    /\ UNCHANGED <<server, token, appUser, effects>>

\* AuthContext.tsx:95-99  refreshUser up to the await
RefreshUser(P) ==
    /\ effects = {}
    /\ IsAuthenticated
    /\ GatewayCall("getCurrentUser", "refreshUser", P)

\* AuthContext.tsx:98-104: on failure logout()
RefreshUserSettle ==
    /\ Returned("refreshUser")
    /\ ctxUser' = IF last.cerr = "none" THEN GetCurrentUserResult(Body(last.userOut))
                  ELSE Null
    /\ token' = IF last.cerr = "none" THEN token ELSE NoTok
    /\ localStorage' = IF last.cerr = "none" THEN localStorage ELSE NoTok
    /\ last' = Settled("refreshUser")
    /\ caller' = "-"
    /\ UNCHANGED <<server, appUser, effects>>

\* AuthContext.tsx:68-70, 77-79  login and register up to the await
ProviderLogin(P) == effects = {} /\ GatewayCall("login", "login", P)
ProviderRegister(P) == effects = {} /\ GatewayCall("register", "register", P)

\* AuthContext.tsx:70-75, 79-84  setUser(data.user), or rethrow
ProviderSignInSettle ==
    /\ \/ Returned("login")
       \/ Returned("register")
    /\ ctxUser' = IF last.cerr = "none" THEN UserOf(LoginResult(Body(last.userOut)))
                  ELSE ctxUser
    /\ last' = Settled(caller)
    /\ caller' = "-"
    /\ UNCHANGED <<server, client, appUser, effects>>

\* AuthContext.tsx:86-89
ProviderLogout ==
    /\ last.phase = "idle" /\ caller = "-" /\ effects = {}
    /\ token' = NoTok /\ localStorage' = NoTok
    /\ ctxUser' = Null
    /\ last' = LoggedOut
    /\ UNCHANGED <<server, appUser, caller, effects>>

SeedAdmin == [exists |-> TRUE, role |-> "admin", isActive |-> TRUE, email |-> 1]

Init ==
    /\ users = [u \in UserIds |-> IF u = 1 THEN SeedAdmin ELSE NoUser]
    /\ templates = [t \in TemplateIds |-> NoTemplate]
    /\ now = 0
    /\ issued = {GhostToken}
    /\ token = NoTok
    /\ localStorage = NoTok
    /\ last = Idle
    /\ appUser = Null /\ ctxUser = Null /\ caller = "-" /\ effects = MountEffects

\* ------------------------------------------------------- Spec: sessions
\* Accounts, tokens and the clock: every header against the guard, the account
\* operations of the admin surface, and a browser that logs in and calls.
SessionProfile ==
    [probe |-> {"other"}, headers |-> Headers, ops |-> {"updateRole", "deactivate"},
     open |-> {"login", "register"},
     faults |-> {NoFault, GuardFault}, queries |-> {PlainQuery},
     creates |-> {BodyWelcome}, updates |-> {UpdHide}, roles |-> {"admin"},
     emails |-> EmailIds, passwords |-> {TRUE}, statuses |-> {200},
     methods |-> {"login", "getCurrentUser"}, intercepts |-> {Answer("html", 401)}]

Next ==
    \/ RawRequest(SessionProfile)
    \/ ApiCall(SessionProfile)
    \/ ApiFails(SessionProfile)
    \/ ApiReceive
    \/ ApiLogout
    \/ Finish
    \/ Tick

Spec == Init /\ [][Next]_vars

\* ------------------------------------------------ SpecAdmin: admin surface
\* Every route of the admin router, called by nobody, by a stranger, by a
\* plain user and by an admin.  The accounts are those of a run of Spec in
\* which the admin has logged in and one user has registered.
AdminToken == Jwt(1, "admin", TokenTTL, "good")
UserToken  == Jwt(2, "user", TokenTTL, "good")

InitAdmin ==
    /\ users = [u \in UserIds |->
                  IF u = 1 THEN SeedAdmin
                  ELSE IF u = UserToken.userId
                       THEN [exists |-> TRUE, role |-> "user", isActive |-> TRUE,
                             email |-> u]
                  ELSE NoUser]
    /\ templates = [t \in TemplateIds |-> NoTemplate]
    /\ now = 0
    /\ issued = {GhostToken, AdminToken, UserToken}
    /\ token = NoTok
    /\ localStorage = NoTok
    /\ last = Idle
    /\ appUser = Null /\ ctxUser = Null /\ caller = "-" /\ effects = MountEffects

AdminProfile ==
    [probe |-> AdminRoutes,
     headers |-> {NoHeader, Bearer(GhostToken), Bearer(AdminToken), Bearer(UserToken),
                  Bearer(Tamper(UserToken))},
     ops |-> {}, open |-> {},
     faults |-> {NoFault, HandlerFault},
     queries |-> {PlainQuery,
                  Q(Param(<<"1">>), Param(<<"1">>), <<>>, "all", "absent"),
                  Q(Param(<<"2">>), Param(<<"1">>), <<>>, "absent", "false"),
                  Q(NoParam, NoParam, <<"w">>, "B", "true")},
     creates |-> {BodyWelcome, BodyPromo}, updates |-> {UpdHide, UpdRetag},
     roles |-> {"user", "admin", "root"}, emails |-> {}, passwords |-> {TRUE},
     statuses |-> {200}, methods |-> {}, intercepts |-> {}]

NextAdmin ==
    \/ RawRequest(AdminProfile)
    \/ Finish

SpecAdmin == InitAdmin /\ [][NextAdmin]_vars

\* --------------------------------------------- SpecClient: the gateway
\* One browser, used by the registered user, calling every gateway method
\* while the clock runs, an admin deactivates accounts and intermediaries
\* answer in the server's place.
ClientProfile ==
    [probe |-> {}, headers |-> {}, ops |-> {"deactivate"}, open |-> {},
     faults |-> {NoFault}, queries |-> {PlainQuery},
     creates |-> {BodyWelcome}, updates |-> {UpdHide}, roles |-> {"admin"},
     emails |-> {UserToken.userId}, passwords |-> BOOLEAN, statuses |-> {200, 404},
     methods |-> GatewayMethods, intercepts |-> Intercepts]

NextClient ==
    \/ RawRequest(ClientProfile)
    \/ ApiCall(ClientProfile)
    \/ ApiFails(ClientProfile)
    \/ ApiReceive
    \/ ApiLogout
    \/ ApiConstruct
    \/ Finish
    \/ Tick

\* The user registered long ago; no token of that time is still around.
InitClient ==
    /\ users = [u \in UserIds |->
                  IF u = 1 THEN SeedAdmin
                  ELSE IF u = UserToken.userId
                       THEN [exists |-> TRUE, role |-> "user", isActive |-> TRUE,
                             email |-> u]
                  ELSE NoUser]
    /\ templates = [t \in TemplateIds |-> NoTemplate]
    /\ now = 0
    /\ issued = {GhostToken, AdminToken}
    /\ token = NoTok
    /\ localStorage = NoTok
    /\ last = Idle
    /\ appUser = Null /\ ctxUser = Null /\ caller = "-" /\ effects = MountEffects

SpecClient == InitClient /\ [][NextClient]_vars

\* ------------------------------------------ SpecRevoke: what outlives what
\* Every operation that changes anything: role changes, deactivation, the
\* template operations, logins and registrations, a browser logging in and
\* out, and the clock.
RevokeProfile ==
    [probe |-> {}, headers |-> {},
     ops |-> {"updateRole", "deactivate", "createTemplate", "updateTemplate",
              "deleteTemplate"},
     open |-> {"login", "register"},
     faults |-> {NoFault}, queries |-> {PlainQuery},
     creates |-> {BodyWelcome}, updates |-> {UpdHide}, roles |-> {"user", "admin"},
     emails |-> EmailIds, passwords |-> {TRUE}, statuses |-> {200},
     methods |-> {"login"}, intercepts |-> {}]

NextRevoke ==
    \/ RawRequest(RevokeProfile)
    \/ ApiCall(RevokeProfile)
    \/ ApiReceive
    \/ ApiLogout
    \/ Finish
    \/ Tick

SpecRevoke == Init /\ [][NextRevoke]_vars

\* ------------------------------------------------ SpecQuery: the listings
\* The two paginated listings under every combination of page, limit and
\* filter an admin's client may send, over stores that grow and shrink.
PageInputs == {NoParam, Param(<<"1">>), Param(<<"2">>), Param(<<"3">>),
               Param(<<"0", "2">>), Param(<<"2", ".", "0">>)}
LimitInputs == {NoParam, Param(<<"1">>), Param(<<"2">>), Param(<<"0", "1">>),
                Param(<<"0">>), Param(<<"9", "9", "9">>)}
FilterInputs == {Q(NoParam, NoParam, <<>>, "absent", "absent"),
                 Q(NoParam, NoParam, <<"w">>, "all", "absent"),
                 Q(NoParam, NoParam, <<>>, "B", "true")}
QueryInputs ==
    {[f EXCEPT !.page = pg, !.limit = lm] :
        pg \in PageInputs, lm \in LimitInputs, f \in FilterInputs}

QueryProfile ==
    [probe |-> {"listUsers", "listTemplates"}, headers |-> {Bearer(AdminToken)},
     ops |-> {"createTemplate", "deleteTemplate", "deactivate"},
     open |-> {"register"},
     faults |-> {NoFault}, queries |-> QueryInputs,
     creates |-> {BodyWelcome, BodyPromo}, updates |-> {UpdHide},
     roles |-> {"user"}, emails |-> EmailIds, passwords |-> {TRUE},
     statuses |-> {200}, methods |-> {}, intercepts |-> {}]

NextQuery ==
    \/ RawRequest(QueryProfile)
    \/ Finish

SpecQuery == InitAdmin /\ [][NextQuery]_vars

\* ------------------------------------- SpecApp: the browser application
\* A browser that registers, logs in and out, reloads the page and refreshes
\* its user, against a server whose admin may deactivate the account, whose
\* store may fail and which a proxy may stand in front of.
InitApp ==
    /\ users = [u \in UserIds |-> IF u = 1 THEN SeedAdmin ELSE NoUser]
    /\ templates = [t \in TemplateIds |-> NoTemplate]
    /\ now = 0
    /\ issued = {GhostToken, AdminToken}
    /\ token = NoTok
    /\ localStorage = NoTok
    /\ last = Idle
    /\ appUser = Null /\ ctxUser = Null /\ caller = "-" /\ effects = MountEffects

AppProfile ==
    [probe |-> {}, headers |-> {}, ops |-> {"deactivate"}, open |-> {},
     faults |-> {NoFault, HandlerFault}, queries |-> {PlainQuery},
     creates |-> {BodyWelcome}, updates |-> {UpdHide}, roles |-> {"user"},
     emails |-> EmailIds \ {SeedAdmin.email}, passwords |-> BOOLEAN,
     statuses |-> {200}, methods |-> {},
     intercepts |-> {Answer("html", 401), Answer("netfail", 0)}]

NextApp ==
    \/ PageLoad
    \/ AppCheckAuthStatus(AppProfile)
    \/ AppCheckAuthSettle
    \/ AppHandleLogout
    \/ InitializeAuth(AppProfile)
    \/ InitializeAuthSettle
    \/ RefreshUser(AppProfile)
    \/ RefreshUserSettle
    \/ ProviderLogin(AppProfile)
    \/ ProviderRegister(AppProfile)
    \/ ProviderSignInSettle
    \/ ProviderLogout
    \/ ApiReceive
    \/ RawRequest(AppProfile)
    \/ Finish
    \/ Tick

SpecApp == InitApp /\ [][NextApp]_vars

\* ================================================================ claims
\* The last request went through the Session Guard of the application server.
Guarded == last.phase # "idle" /\ last.ctype = "json" /\ last.route \in GuardedRoutes
\* The guard called next() for it.
GuardPassed == Len(last.trace) >= 3 /\ last.trace[3] = "next"
\* The token string it carried (body of the header, with or without prefix).
Carried == last.hdr.body
Signed(t) == t.kind = "jwt" /\ t.sig = "good"
InTrace(step) == \E i \in 1..Len(last.trace) : last.trace[i] = step

\* C1: a request without a token (no Authorization header, or one that yields
\* the empty string) gets a single 401 from the Session Guard, which neither
\* verifies anything nor reads the account store before answering.
C1_NoTokenRejectedFirst ==
    (Guarded /\ (~last.hdr.present \/ Carried.kind = "empty")) =>
        /\ last.status = 401 /\ last.code = NoCode /\ last.sent = 1
        /\ last.trace = <<>>
        /\ ~last.ran /\ last.principal = NoPrincipal

C1_Witness ==
    /\ Guarded /\ last.hdr = Bearer(EmptyTok) /\ last.status = 401

\* C2: a request presenting a token of an account whose active flag is false
\* never gets past the Session Guard, however good the token; and nothing
\* sets the flag again, so after a successful deactivation of A no later
\* request with a token of A reaches a handler.
C2_DeactivatedRejected ==
    [][ /\ (/\ last.phase = "idle" /\ last'.phase = "served"
            /\ last'.ctype = "json" /\ last'.route \in GuardedRoutes
            /\ last'.hdr.present /\ last'.hdr.body.kind = "jwt"
            /\ last'.hdr.body.userId \in ExistingUsers
            /\ ~users[last'.hdr.body.userId].isActive)
           => (~last'.ran /\ last'.principal = NoPrincipal
               /\ last'.status \in {401, 500} /\ last'.trace[Len(last'.trace)] # "next")
        /\ \A u \in ExistingUsers : ~users[u].isActive => ~users'[u].isActive
      ]_vars

C2_Witness ==
    /\ Guarded /\ last.code = "ACCOUNT_DEACTIVATED"
    /\ Signed(Carried) /\ now < Carried.exp
    /\ \E t \in issued : t.userId = Carried.userId /\ t # Carried

\* C4: the Session Guard calls next() exactly when a token is present, it
\* verifies, and the lookup returns an account that is active; the principal
\* then carries the token's account id and role and the loaded record.
\* Otherwise exactly one error response goes out, no principal is attached
\* and no handler runs.
C4_GuardPassesIff ==
    Guarded =>
        /\ GuardPassed =>
              /\ last.hdr.present /\ Signed(Carried) /\ now < Carried.exp
              /\ last.principal.userId = Carried.userId
              /\ last.principal.role = Carried.role
              /\ last.principal.userDoc.exists /\ last.principal.userDoc.isActive
              /\ last.route \in {"other", "me"} =>
                    last.principal.userDoc = users[Carried.userId]
        /\ ~GuardPassed =>
              /\ last.sent = 1 /\ last.status \in {401, 500}
              /\ last.principal = NoPrincipal /\ ~last.ran /\ ~InTrace("handler")
              /\ last.status = 401 =>
                    ~(/\ last.hdr.present /\ Signed(Carried) /\ now < Carried.exp
                      /\ Carried.userId \in ExistingUsers
                      /\ users[Carried.userId].isActive)
              /\ last.status = 500 => last.code = "AUTH_ERROR"

C4_Witness ==
    /\ Guarded /\ GuardPassed /\ last.route = "other"
    /\ last.principal.role # last.principal.userDoc.role

\* C5 as written: the guard answers TOKEN_EXPIRED exactly for a correctly
\* signed token past its expiry and gives every other rejection another code;
\* the gateway raises the session-expired error exactly for the 401 responses
\* that carry TOKEN_EXPIRED and the generic authentication error for every
\* other 401.
C5_ExpiredDistinguished ==
    /\ (Guarded /\ ~GuardPassed) =>
          (last.code = "TOKEN_EXPIRED" <=>
              (last.hdr.present /\ Signed(Carried) /\ now >= Carried.exp))
    /\ (last.phase = "handled" /\ last.status = 401) =>
          last.cerr = (IF last.code = "TOKEN_EXPIRED" THEN "expired" ELSE "auth")
    /\ (last.phase = "handled" /\ last.cerr \in {"expired", "auth"}) => last.status = 401

\* A request has just been served: the step from the idle state to its answer.
Serving == last.phase = "idle" /\ last'.phase = "served" /\ last'.ctype = "json"
AdminOrder == <<"verify", "findById", "next", "adminAuth", "next", "handler">>

\* C3: on every admin route a principal whose role is not admin gets a 403
\* and both stores stay as they were; a principal whose role is admin reaches
\* the handler; and a handler of an admin route runs only after the Session
\* Guard and then the Role Guard have called next().
C3_AdminOnly ==
    [][ (Serving /\ last'.route \in AdminRoutes) =>
          LET passed == Len(last'.trace) >= 3 /\ last'.trace[3] = "next" IN
          /\ (passed /\ last'.principal.role # "admin") =>
                /\ last'.status = 403 /\ ~last'.ran /\ last'.sent = 1
                /\ users' = users /\ templates' = templates
          /\ (passed /\ last'.principal.role = "admin") => last'.ran
          /\ last'.ran => last'.trace = AdminOrder
          /\ ~last'.ran => (users' = users /\ templates' = templates)
      ]_vars

C3_Witness ==
    /\ last.phase = "served" /\ last.route = "deleteTemplate" /\ last.status = 403
    /\ last.hdr = Bearer(UserToken) /\ users[UserToken.userId].role = "admin"
    /\ last.id \in ExistingTemplates /\ templates[last.id].isActive

\* C9: a template listing returns only templates whose active flag is set,
\* whatever the filter, page and limit; and no operation sets the flag of a
\* soft-deleted template again, so a deleted template is in no later listing.
C9_ListsOnlyActive ==
    /\ []((last.phase = "served" /\ last.route \in {"listTemplates", "dashboard"}) =>
            \A i \in 1..Len(last.items) :
                /\ last.items[i] \in ExistingTemplates
                /\ templates[last.items[i]].isActive)
    /\ [][\A t \in ExistingTemplates : ~templates[t].isActive => ~templates'[t].isActive]_vars

C9_Witness ==
    /\ last.phase = "served" /\ last.route = "listTemplates" /\ last.ran
    /\ last.status = 200 /\ last.pg.total = 0
    /\ \E t \in ExistingTemplates :
          ~templates[t].isActive /\ ~templates[t].isPublic /\ templates[t].isPremium

\* C10 as written: an update or soft delete of a template id that does not
\* resolve to an active template answers 404 and leaves the store unchanged.
C10_InactiveIsNotFound ==
    [][ (/\ Serving /\ last'.route \in {"updateTemplate", "deleteTemplate"}
         /\ last'.ran /\ last'.status # 500
         /\ ~(last'.id \in ExistingTemplates /\ templates[last'.id].isActive))
        => (last'.status = 404 /\ templates' = templates)
      ]_vars

\* The Session Guard would call next() for a request carrying token t.
Accepts(t) == auth(Bearer(t), TRUE).next

\* C6: a token the Session Guard accepts is still accepted after any step
\* (a role change, a template operation, a login, a registration, a logout)
\* unless the step took it past its expiry or cleared its account's flag.
C6_OnlyExpiryOrDeactivation ==
    [][ \A t \in issued :
          (/\ Accepts(t)
           /\ now' < t.exp
           /\ users'[t.userId].isActive) => Accepts(t)'
      ]_vars

C6_Witness ==
    /\ \E t \in issued :
          /\ Accepts(t) /\ t.role # users[t.userId].role /\ t # token
          /\ \E o \in issued : o # t /\ o.userId = t.userId
    /\ last = LoggedOut
    /\ \E x \in ExistingTemplates : ~templates[x].isActive

\* C7 as written: once the gateway has handled a response with status 401,
\* whatever its body, the token is gone from memory and from localStorage.
C7_Any401ClearsToken ==
    (last.phase = "handled" /\ last.status = 401) =>
        (token = NoTok /\ localStorage = NoTok)

\* C8: every request of every gateway method carries Authorization: Bearer
\* <token> when a token is stored and no Authorization header when none is;
\* after logout() none is stored.
C8_TokenAttached ==
    /\ (last.origin = "client" /\ last.phase = "served") =>
          /\ last.method \in GatewayMethods
          /\ token # NoTok => last.hdr = Bearer(token)
          /\ token = NoTok => last.hdr = NoHeader
    /\ last = LoggedOut => (token = NoTok /\ localStorage = NoTok)

C8_Witness ==
    /\ last.origin = "client" /\ last.phase = "served"
    /\ last.method = "enhanceTemplate" /\ last.hdr = Bearer(token)
    /\ last.ran /\ now > 0

\* The number a client means by each page or limit string it sends.
Meant ==
    (<<"1">> :> 1) @@ (<<"2">> :> 2) @@ (<<"3">> :> 3) @@ (<<"0", "2">> :> 2)
    @@ (<<"2", ".", "0">> :> 2) @@ (<<"0", "1">> :> 1) @@ (<<"0">> :> 0)
    @@ (<<"9", "9", "9">> :> 999)
MeantPage == IF last.query.page.has THEN Meant[last.query.page.v] ELSE 1
MeantLimit == IF last.query.limit.has THEN Meant[last.query.limit.v] ELSE 20
\* A listing has been answered by its handler.
Listed == /\ last.phase = "served" /\ last.ran /\ last.status = 200
          /\ last.route \in {"listUsers", "listTemplates"}
\* The ids of the active records that match the filter of the last listing.
Matching ==
    IF last.route = "listUsers" THEN {u \in UserIds : UserMatches(last.query, u)}
    ELSE {t \in TemplateIds : TemplateMatches(last.query, t)}

C12_PageSizeCapped ==
    (last.phase = "served" /\ last.find.called) =>
        /\ last.find.limit > 0
        /\ last.find.limit < 999
        /\ Len(last.items) <= last.find.limit

\* C13 as written: only a header of the form Bearer <token> authenticates; a
\* request without a header, or with a header not of that form, is turned
\* away by the guard and gets no principal.
C13_BearerOnly ==
    (Guarded /\ (~last.hdr.present \/ ~last.hdr.bearer)) =>
        /\ ~GuardPassed /\ last.principal = NoPrincipal /\ ~last.ran
        /\ last.status \in {401, 500}

\* checkAuthStatus of this page load is over.
Checked == last.phase = "idle" /\ last.origin = "ui" /\ last.method = "checkAuthStatus"

\* C14 as written: when the page loads with a stored token and GET /auth/me
\* succeeds, App's user state holds the returned account record; it stays
\* null only when no token is stored or the call fails.
C14_SessionRestored ==
    Checked =>
        /\ last.cerr = "none" => (last.userOut # 0 /\ appUser = Account(last.userOut))
        /\ appUser = Null => last.cerr # "none"

\* C15 as written: the gateway's token and localStorage['authToken'] agree in
\* every state of the browser.
C15_TokenMatchesStorage == token = localStorage

====
